---- MODULE Spec2Model ----
(***************************************************************************)
(* Model of src/net/socket_state.rs: SocketState, the registry of virtual  *)
(* connections of the UDP socket, its three packet operations              *)
(* (pre_process_packet, dropped_packets, process_received) and the         *)
(* check_for_timeouts thread.                                              *)
(*                                                                         *)
(* Connection, ExternalAcks (their_acks) and LocalAckRecord                *)
(* (waiting_packets) live in sibling files that are not part of the        *)
(* sources at hand; they are modelled from the specification (sections     *)
(* 3, 4.1 - 4.4).                                                          *)
(***************************************************************************)
EXTENDS Integers, Sequences, FiniteSets, TLC

\* ------------------------------------------------------------------ bounds
SeqBits == 2          \* width of the sequence counter in the model (u16 in the program)
Horizon == 1          \* width of the ack bit field in the model (32 in the program)
MaxEndpoints == 2     \* socket addresses that ever talk to the socket
MaxCallers == 2       \* threads that call into the SocketState
MaxTime == 11         \* seconds the clock is followed for, when the timeout thread is studied
ShortTime == 1        \* seconds the clock is followed for otherwise
MaxMsgs == 1          \* outbound packets handed to pre_process_packet
MaxRecvs == 1         \* inbound packets handed to process_received
ShortTimeout == 1     \* a client timeout other than the default
WindowMsgs == 5       \* outbound packets, when the window is what is studied
AckRecvs == 4         \* inbound packets, when their_acks is what is studied
ScenarioLast == 2     \* the last sequence number sent in the scenario of unacknowledged sends
WindowRecvs == 2      \* inbound packets, when the window is what is studied

\* ------------------------------------------------------- program constants
TIMEOUT_DEFAULT == 10
TIMEOUT_POLL_INTERVAL == 1

RECURSIVE Pow2(_)
Pow2(n) == IF n = 0 THEN 1 ELSE 2 * Pow2(n - 1)

SeqMod == Pow2(SeqBits)
HalfRange == SeqMod \div 2
SeqNums == 0 .. (SeqMod - 1)
Fields == SUBSET (1 .. Horizon)
Endpoints == 1 .. MaxEndpoints
Callers == 1 .. MaxCallers

EmptyFn == [x \in {} |-> 0]
Range(s) == {s[i] : i \in DOMAIN s}

\* ------------------------------------------------------ SequenceArithmetic
\* a is newer than b iff (a - b) mod 2^w is in (0, 2^(w-1)]
IsNewer(a, b) == LET d == (a - b) % SeqMod IN d > 0 /\ d <= HalfRange
\* how far s lies behind ack (wrap-aware)
Age(s, ack) == (ack - s) % SeqMod

\* ----------------------------------------------- AckRecord (ExternalAcks)
\* field is kept as the set of set bit indices: i \in field iff bit i is set,
\* bit i standing for sequence last_seq - i
MaxPeerSeq == SeqMod + 1

NewAcks == [last_seq |-> 0, field |-> {}]

Observe(rec, seq) ==
    IF IsNewer(seq, rec.last_seq)
    THEN LET d == Age(rec.last_seq, seq)
         IN [last_seq |-> seq,
             field |-> {i + d : i \in {j \in rec.field : j + d <= Horizon}}
                       \cup (IF d <= Horizon THEN {d} ELSE {})]
    ELSE LET d == Age(seq, rec.last_seq)
         IN IF d >= 1 /\ d <= Horizon
            THEN [rec EXCEPT !.field = rec.field \cup {d}]
            ELSE rec

\* ------------------------------------------- SentWindow (LocalAckRecord)
\* the window is a function from the sequence numbers pending to the packet
Enqueue(w, seq, p) == [s \in (DOMAIN w) \cup {seq} |-> IF s = seq THEN p ELSE w[s]]

AckedSeqs(w, ack, field) ==
    {s \in DOMAIN w : s = ack \/ (IsNewer(ack, s) /\ Age(s, ack) <= Horizon
                                   /\ Age(s, ack) \in field)}

DroppedSeqs(w, ack, field) ==
    {s \in DOMAIN w : IsNewer(ack, s) /\ Age(s, ack) > Horizon}

RECURSIVE OldestFirst(_, _)
\* the sequence numbers of S, oldest first as seen from ack
OldestFirst(S, ack) ==
    IF S = {} THEN <<>>
    ELSE LET o == CHOOSE s \in S : \A t \in S : Age(s, ack) >= Age(t, ack)
         IN <<o>> \o OldestFirst(S \ {o}, ack)

\* resolve: what stays pending, and the list of (seq, packet) harvested as dropped
ResolveRemaining(w, ack, field) ==
    [s \in (DOMAIN w) \ (AckedSeqs(w, ack, field) \cup DroppedSeqs(w, ack, field)) |-> w[s]]

ResolveDropped(w, ack, field) ==
    LET order == OldestFirst(DroppedSeqs(w, ack, field), ack)
    IN [i \in 1 .. Len(order) |-> <<order[i], w[order[i]]>>]

\* ----------------------------------------------------------------- state
VARIABLES
    alive,          \* the SocketState value is still owned by somebody
    timeout,        \* SocketState.timeout
    connections,    \* SocketState.connections: socket address -> connection handle
    conn,           \* the Connection behind each handle
    mapLock,        \* the RwLock around the HashMap
    connLock,       \* the RwLock around each Connection
    pc, op,         \* per caller: position in the method it runs, and its locals
    monPc,          \* position of the check_for_timeouts thread
    sleepy_time,    \* the Duration that thread captured
    monTodo,        \* keys its iteration has not visited yet
    monCur,         \* key it holds the read lock of
    sleepLeft,      \* seconds its current sleep still lasts
    nextMsg,        \* identity of the next packet handed in
    nRecv,          \* inbound packets handed in so far
    budget,         \* how much traffic and time this run follows (never changes)
    hist            \* history: what each operation did (read by the properties only)

sockVars == <<alive, timeout, connections, conn>>
lockVars == <<mapLock, connLock>>
callVars == <<pc, op, nextMsg, nRecv>>
monVars == <<monPc, sleepy_time, monTodo, monCur, sleepLeft>>
vars == <<alive, timeout, connections, conn, mapLock, connLock, pc, op,
          monPc, sleepy_time, monTodo, monCur, sleepLeft, nextMsg, nRecv,
          budget, hist>>

FreeLock == [w |-> 0, r |-> {}]
NoRaw == [seq |-> 0, ack_seq |-> 0, ack_field |-> {}]
NoOp == [name |-> "none", addr |-> 0, packet |-> 0, raw |-> NoRaw, peer_seq |-> 0,
         connection |-> 0, ok |-> TRUE, out |-> <<>>, before |-> EmptyFn]

\* Connection::new(addr); last_heard is kept as the seconds gone by since that instant
NewConnection(addr) ==
    [addr |-> addr, seq_num |-> 0, waiting_packets |-> EmptyFn,
     dropped_packets |-> <<>>, their_acks |-> NewAcks, last_heard |-> 0]

NoHist ==
    [stamped   |-> <<>>,     \* <<handle, packet, seq>> of every header built, in order
     enqueued  |-> {},       \* packets ever put in a window
     replaced  |-> {},       \* packets an enqueue under the same sequence number replaced
     acked     |-> {},       \* packets resolve removed as acknowledged
     harvested |-> <<>>,     \* packets resolve returned as dropped, in order
     drained   |-> <<>>,     \* packets dropped_packets returned, in order
     handles   |-> {},       \* <<addr, handle>> of every handle returned
     creator   |-> EmptyFn,  \* addr -> the caller whose call first asked for it
     heard     |-> EmptyFn,  \* handle -> the peer's packets taken in, by the peer's count
     sweep     |-> EmptyFn]  \* the sweep under way: key -> [elapsed, fired]

InitWith(b) ==
    /\ budget = b
    /\ alive = TRUE
    /\ timeout = TIMEOUT_DEFAULT
    /\ connections = EmptyFn
    /\ conn = EmptyFn
    /\ mapLock = FreeLock
    /\ connLock = EmptyFn
    /\ pc = [c \in Callers |-> "idle"]
    /\ op = [c \in Callers |-> NoOp]
    /\ monPc = "lock_map"
    /\ sleepy_time = TIMEOUT_DEFAULT
    /\ monTodo = {}
    /\ monCur = 0
    /\ sleepLeft = 0
    /\ nextMsg = 1
    /\ nRecv = 0
    /\ hist = NoHist

\* the registry under every operation, with little traffic and over a short time
Init ==
    InitWith([endpoints |-> Endpoints, callers |-> Callers, msgs |-> MaxMsgs,
              recvs |-> MaxRecvs, time |-> ShortTime, seqs |-> {1},
              timeouts |-> {TIMEOUT_DEFAULT, ShortTimeout}])

\* the timeout thread over a long time, the connections being made by dropped_packets
InitSweep ==
    InitWith([endpoints |-> Endpoints, callers |-> {1}, msgs |-> 0,
              recvs |-> 0, time |-> MaxTime, seqs |-> {}, timeouts |-> {}])

\* one connection's window, over a short time
InitWindow ==
    InitWith([endpoints |-> {1}, callers |-> {1}, msgs |-> WindowMsgs,
              recvs |-> WindowRecvs, time |-> ShortTime, seqs |-> {1},
              timeouts |-> {TIMEOUT_DEFAULT, ShortTimeout}])

\* one connection's their_acks under the peer's packets, the counter wrapping round
InitAcks ==
    InitWith([endpoints |-> {1}, callers |-> {1}, msgs |-> 0,
              recvs |-> AckRecvs, time |-> ShortTime, seqs |-> 0 .. MaxPeerSeq,
              timeouts |-> {}])

\* ------------------------------------------------------------ the callers
\* every method takes &mut self: a call starts only when no other call runs
BorrowFree == \A c \in Callers : pc[c] = "idle"

WindowOf(addr) ==
    IF addr \in DOMAIN connections THEN conn[connections[addr]].waiting_packets ELSE EmptyFn

Call_pre_process_packet(c, addr) ==
    /\ alive /\ BorrowFree
    /\ nextMsg <= budget.msgs
    /\ pc' = [pc EXCEPT ![c] = "create"]
    /\ op' = [op EXCEPT ![c] = [NoOp EXCEPT !.name = "pre_process_packet", !.addr = addr,
                                            !.packet = nextMsg, !.before = WindowOf(addr)]]
    /\ nextMsg' = nextMsg + 1
    /\ UNCHANGED <<sockVars, lockVars, monVars, nRecv, budget, hist>>

Call_dropped_packets(c, addr) ==
    /\ alive /\ BorrowFree
    /\ pc' = [pc EXCEPT ![c] = "create"]
    /\ op' = [op EXCEPT ![c] = [NoOp EXCEPT !.name = "dropped_packets", !.addr = addr]]
    /\ UNCHANGED <<sockVars, lockVars, monVars, nextMsg, nRecv, budget, hist>>

\* what the peer has been heard to send so far; a new connection's their_acks names
\* sequence 0 as its last_seq
HeardFrom(h) == (IF h \in DOMAIN hist.heard THEN hist.heard[h] ELSE {}) \cup {0}

Newest(S) == CHOOSE x \in S : \A y \in S : y <= x

\* the u16 the peer writes in its header for the n-th packet it sends
WireSeq(n) == n % SeqMod

\* the network hands packets over less than half the sequence space out of order
InReach(addr, n) ==
    LET newest == IF addr \in DOMAIN connections
                  THEN Newest(HeardFrom(connections[addr])) ELSE 0
    IN n - newest < HalfRange /\ newest - n < HalfRange

\* the peer's n-th packet arrives with header raw
Call_process_received(c, addr, n, raw) ==
    /\ alive /\ BorrowFree
    /\ nRecv < budget.recvs
    /\ n \in budget.seqs
    /\ InReach(addr, n)
    /\ raw.seq = WireSeq(n)
    /\ pc' = [pc EXCEPT ![c] = "create"]
    /\ op' = [op EXCEPT ![c] = [NoOp EXCEPT !.name = "process_received", !.addr = addr,
                                            !.raw = raw, !.peer_seq = n]]
    /\ nRecv' = nRecv + 1
    /\ UNCHANGED <<sockVars, lockVars, monVars, nextMsg, budget, hist>>

\* self.connections.write()
AcquireMapWrite(c) ==
    /\ pc[c] = "create"
    /\ mapLock = FreeLock
    /\ mapLock' = [mapLock EXCEPT !.w = c]
    /\ pc' = [pc EXCEPT ![c] = "create_locked"]
    /\ UNCHANGED <<sockVars, connLock, op, nextMsg, nRecv, monVars, budget, hist>>

\* an insert that does not look first
LookupOrInsert_Always(map, addr, fresh) ==
    [k \in (DOMAIN map) \cup {addr} |-> IF k = addr THEN fresh ELSE map[k]]

\* the map after contains_key / insert, fresh being the handle of a new Connection
LookupOrInsert(map, addr, fresh) ==
    IF addr \in DOMAIN map
    THEN map
    ELSE [k \in (DOMAIN map) \cup {addr} |-> IF k = addr THEN fresh ELSE map[k]]

FirstStep(name) ==
    CASE name = "pre_process_packet" -> "pp_enq"
      [] name = "dropped_packets" -> "dp"
      [] name = "process_received" -> "pr_ack"

create_connection_if_not_exists(c) ==
    /\ pc[c] = "create_locked"
    /\ LET addr == op[c].addr
           fresh == Cardinality(DOMAIN conn) + 1
           map == LookupOrInsert(connections, addr, fresh)
           handle == map[addr]
       IN /\ connections' = map
          /\ conn' = IF handle \in DOMAIN conn THEN conn
                     ELSE [i \in (DOMAIN conn) \cup {handle} |->
                              IF i = handle THEN NewConnection(addr) ELSE conn[i]]
          /\ connLock' = IF handle \in DOMAIN connLock THEN connLock
                         ELSE [i \in (DOMAIN connLock) \cup {handle} |->
                                  IF i = handle THEN FreeLock ELSE connLock[i]]
          /\ op' = [op EXCEPT ![c].connection = handle]
          /\ hist' = [hist EXCEPT !.handles = @ \cup {<<addr, handle>>},
                                  !.creator = IF addr \in DOMAIN @ THEN @
                                              ELSE [k \in (DOMAIN @) \cup {addr} |->
                                                       IF k = addr THEN c ELSE @[k]]]
    /\ mapLock' = FreeLock
    /\ pc' = [pc EXCEPT ![c] = FirstStep(op[c].name)]
    /\ UNCHANGED <<alive, timeout, nextMsg, nRecv, monVars, budget>>

WaitingForConn == {"pp_enq", "pp_hdr", "dp", "pr_ack", "pr_res"}

Locked(p) ==
    CASE p = "pp_enq" -> "pp_enq_locked"
      [] p = "pp_hdr" -> "pp_hdr_locked"
      [] p = "dp" -> "dp_locked"
      [] p = "pr_ack" -> "pr_ack_locked"
      [] p = "pr_res" -> "pr_res_locked"

\* connection.write()
AcquireConnWrite(c) ==
    /\ pc[c] \in WaitingForConn
    /\ connLock[op[c].connection] = FreeLock
    /\ connLock' = [connLock EXCEPT ![op[c].connection].w = c]
    /\ pc' = [pc EXCEPT ![c] = Locked(pc[c])]
    /\ UNCHANGED <<sockVars, mapLock, op, nextMsg, nRecv, monVars, budget, hist>>

\* a write guard that is never dropped
ReleaseConn_Leak(c) == connLock' = connLock

ReleaseConn(c) == connLock' = [connLock EXCEPT ![op[c].connection] = FreeLock]

\* ---- pre_process_packet
\* first block: queue the new packet under the current sequence number
pre_process_enqueue(c) ==
    /\ pc[c] = "pp_enq_locked"
    /\ LET h == op[c].connection
           seq_num == conn[h].seq_num
       IN /\ conn' = [conn EXCEPT ![h].waiting_packets = Enqueue(@, seq_num, op[c].packet)]
          /\ hist' = [hist EXCEPT !.enqueued = @ \cup {op[c].packet},
                                  !.replaced = @ \cup
                                      (IF seq_num \in DOMAIN conn[h].waiting_packets
                                       THEN {conn[h].waiting_packets[seq_num]} ELSE {})]
    /\ ReleaseConn(c)
    /\ pc' = [pc EXCEPT ![c] = "pp_hdr"]
    /\ UNCHANGED <<alive, timeout, connections, mapLock, op, nextMsg, nRecv, monVars,
                   budget>>

\* a counter that is never advanced
NextSeq_Stuck(s) == s

\* seq_num.wrapping_add(1)
NextSeq(s) == (s + 1) % SeqMod

\* a header built after the sequence number was advanced
BuildRaw_After(l) ==
    [seq |-> NextSeq(l.seq_num), ack_seq |-> l.their_acks.last_seq,
     ack_field |-> l.their_acks.field]

\* RawPacket::new(l.seq_num, &packet, l.their_acks.last_seq, l.their_acks.field)
BuildRaw(l) ==
    [seq |-> l.seq_num, ack_seq |-> l.their_acks.last_seq, ack_field |-> l.their_acks.field]

\* second block: build the header, advance the sequence number, serialize
pre_process_header(c, serialized) ==
    /\ pc[c] = "pp_hdr_locked"
    /\ LET h == op[c].connection
           raw == BuildRaw(conn[h])
       IN /\ conn' = [conn EXCEPT ![h].seq_num = NextSeq(@)]
          /\ op' = [op EXCEPT ![c].raw = raw, ![c].ok = serialized]
          /\ hist' = [hist EXCEPT !.stamped = Append(@, <<h, op[c].packet, raw.seq>>)]
    /\ ReleaseConn(c)
    /\ pc' = [pc EXCEPT ![c] = "ret"]
    /\ UNCHANGED <<alive, timeout, connections, mapLock, nextMsg, nRecv, monVars,
                   budget>>

\* ---- dropped_packets
\* lock.dropped_packets.drain(..).collect(): what is returned, and what is left
Drained(list) == list
\* a drain that hands the list out and keeps it
AfterDrain_Keep(list) == list
AfterDrain(list) == <<>>

dropped_packets(c) ==
    /\ pc[c] = "dp_locked"
    /\ LET h == op[c].connection
           packets == Drained(conn[h].dropped_packets)
       IN /\ conn' = [conn EXCEPT ![h].dropped_packets = AfterDrain(@)]
          /\ op' = [op EXCEPT ![c].out = packets]
          /\ hist' = [hist EXCEPT !.drained = @ \o packets]
    /\ ReleaseConn(c)
    /\ pc' = [pc EXCEPT ![c] = "ret"]
    /\ UNCHANGED <<alive, timeout, connections, mapLock, nextMsg, nRecv, monVars,
                   budget>>

\* ---- process_received
\* first block: lock.their_acks.ack(packet.seq)
\* the peer's record fed with what the packet acknowledges
SeqOf_Ack(raw) == raw.ack_seq

\* the argument of their_acks.ack(packet.seq)
SeqOf(raw) == raw.seq

process_received_ack(c) ==
    /\ pc[c] = "pr_ack_locked"
    /\ LET h == op[c].connection
       IN /\ conn' = [conn EXCEPT ![h].their_acks = Observe(@, SeqOf(op[c].raw))]
          /\ hist' = [hist EXCEPT !.heard =
                         [k \in (DOMAIN @) \cup {h} |->
                             (IF k \in DOMAIN @ THEN @[k] ELSE {})
                             \cup (IF k = h THEN {op[c].peer_seq} ELSE {})]]
    /\ ReleaseConn(c)
    /\ pc' = [pc EXCEPT ![c] = "pr_res"]
    /\ UNCHANGED <<alive, timeout, connections, mapLock, op, nextMsg, nRecv, monVars,
                   budget>>

\* dropped_packets.into_iter().map(|(_, p)| p).collect()
Packets(pairs) == [i \in DOMAIN pairs |-> pairs[i][2]]

\* lock.dropped_packets = ...: the list after the harvest `dropped` came in
StoreDropped(old, dropped) == Packets(dropped)

\* the window resolved against the packet's own sequence number
AckSeqOf_Seq(raw) == raw.seq

\* the arguments of waiting_packets.ack(packet.ack_seq, packet.ack_field)
AckSeqOf(raw) == raw.ack_seq
\* the bit field of the packet left out
AckFieldOf_None(raw) == {}
AckFieldOf(raw) == raw.ack_field

\* second block: resolve the window against the peer's acks, keep the harvest
process_received_resolve(c) ==
    /\ pc[c] = "pr_res_locked"
    /\ LET h == op[c].connection
           w == conn[h].waiting_packets
           ack == AckSeqOf(op[c].raw)
           field == AckFieldOf(op[c].raw)
           dropped == ResolveDropped(w, ack, field)
       IN /\ conn' = [conn EXCEPT ![h].waiting_packets = ResolveRemaining(w, ack, field),
                                  ![h].dropped_packets = StoreDropped(@, dropped)]
          /\ hist' = [hist EXCEPT !.acked = @ \cup {w[s] : s \in AckedSeqs(w, ack, field)},
                                  !.harvested = @ \o Packets(dropped)]
    /\ ReleaseConn(c)
    /\ pc' = [pc EXCEPT ![c] = "ret"]
    /\ UNCHANGED <<alive, timeout, connections, mapLock, op, nextMsg, nRecv, monVars,
                   budget>>

\* the method returns and its locals go away
Return(c) ==
    /\ pc[c] = "ret"
    /\ pc' = [pc EXCEPT ![c] = "idle"]
    /\ op' = [op EXCEPT ![c] = NoOp]
    /\ UNCHANGED <<sockVars, lockVars, nextMsg, nRecv, monVars, budget, hist>>

\* with_client_timeout: only the field changes
with_client_timeout(t) ==
    /\ alive /\ BorrowFree
    /\ t # timeout
    /\ timeout' = t
    /\ UNCHANGED <<alive, connections, conn, lockVars, callVars, monVars, budget, hist>>

\* the owner lets go of the SocketState; the struct has no Drop of its own and the
\* thread keeps its clone of the map
DropSocketState ==
    /\ alive /\ BorrowFree
    /\ alive' = FALSE
    /\ UNCHANGED <<timeout, connections, conn, lockVars, callVars, monVars, budget, hist>>

\* ------------------------------------------- the check_for_timeouts thread
Monitor == "check_for_timeouts"

\* connections_lock.read(), and the iterator over the map
MonLockMap ==
    /\ monPc = "lock_map"
    /\ mapLock.w = 0
    /\ mapLock' = [mapLock EXCEPT !.r = @ \cup {Monitor}]
    /\ monTodo' = DOMAIN connections
    /\ monPc' = "iter"
    /\ UNCHANGED <<sockVars, connLock, callVars, sleepy_time, monCur, sleepLeft, budget, hist>>

\* next (key, value) of the iteration, and value.read()
MonLockConn(key) ==
    /\ monPc = "iter"
    /\ key \in monTodo
    /\ connLock[connections[key]].w = 0
    /\ connLock' = [connLock EXCEPT ![connections[key]].r = @ \cup {Monitor}]
    /\ monCur' = key
    /\ monPc' = "check"
    /\ UNCHANGED <<sockVars, mapLock, callVars, sleepy_time, monTodo, sleepLeft, budget, hist>>

\* connection.last_heard(): the time since the connection was last heard of
LastHeard(c) == c.last_heard

\* a comparison that misses the boundary
TimedOut_Strict(last_heard, limit) == last_heard > limit

\* last_heard >= sleepy_time
TimedOut(last_heard, limit) == last_heard >= limit

\* the body of the for loop: compare, log, and let go of the connection
MonCheck ==
    /\ monPc = "check"
    /\ LET h == connections[monCur]
           last_heard == LastHeard(conn[h])
           fired == IF TimedOut(last_heard, sleepy_time) THEN 1 ELSE 0
           seen == IF monCur \in DOMAIN hist.sweep THEN hist.sweep[monCur].fired ELSE 0
       IN /\ hist' = [hist EXCEPT !.sweep =
                        [k \in (DOMAIN @) \cup {monCur} |->
                            IF k = monCur THEN [elapsed |-> last_heard, fired |-> seen + fired]
                            ELSE @[k]]]
          /\ connLock' = [connLock EXCEPT ![h].r = @ \ {Monitor}]
    /\ monTodo' = monTodo \ {monCur}
    /\ monCur' = 0
    /\ monPc' = "iter"
    /\ UNCHANGED <<sockVars, mapLock, callVars, sleepy_time, sleepLeft, budget>>

\* the iteration is over: the read guard of the map goes, thread::sleep(poll_interval)
MonSleep ==
    /\ monPc = "iter"
    /\ monTodo = {}
    /\ mapLock' = [mapLock EXCEPT !.r = @ \ {Monitor}]
    /\ sleepLeft' = TIMEOUT_POLL_INTERVAL
    /\ monPc' = "sleep"
    /\ hist' = [hist EXCEPT !.sweep = EmptyFn]
    /\ UNCHANGED <<sockVars, connLock, callVars, sleepy_time, monTodo, monCur, budget>>

\* the sleep is over: loop
MonWake ==
    /\ monPc = "sleep"
    /\ sleepLeft = 0
    /\ monPc' = "lock_map"
    /\ UNCHANGED <<sockVars, lockVars, callVars, sleepy_time, monTodo, monCur, sleepLeft,
                   budget, hist>>

Min(a, b) == IF a < b THEN a ELSE b
Max(a, b) == IF a > b THEN a ELSE b

\* a second goes by (a silence is followed up to budget.time seconds)
Tick ==
    /\ conn' = [h \in DOMAIN conn |->
                  [conn[h] EXCEPT !.last_heard = Min(@ + 1, budget.time)]]
    /\ sleepLeft' = Max(sleepLeft - 1, 0)
    /\ UNCHANGED <<alive, timeout, connections, lockVars, callVars, monPc, sleepy_time,
                   monTodo, monCur, budget, hist>>

RawPackets == [seq : SeqNums, ack_seq : SeqNums, ack_field : Fields]

Next ==
    \/ \E c \in budget.callers, addr \in budget.endpoints : Call_pre_process_packet(c, addr)
    \/ \E c \in budget.callers, addr \in budget.endpoints : Call_dropped_packets(c, addr)
    \/ \E c \in budget.callers, addr \in budget.endpoints, n \in budget.seqs,
          raw \in RawPackets : Call_process_received(c, addr, n, raw)
    \/ \E c \in Callers : AcquireMapWrite(c)
    \/ \E c \in Callers : create_connection_if_not_exists(c)
    \/ \E c \in Callers : AcquireConnWrite(c)
    \/ \E c \in Callers : pre_process_enqueue(c)
    \/ \E c \in Callers, serialized \in BOOLEAN : pre_process_header(c, serialized)
    \/ \E c \in Callers : dropped_packets(c)
    \/ \E c \in Callers : process_received_ack(c)
    \/ \E c \in Callers : process_received_resolve(c)
    \/ \E c \in Callers : Return(c)
    \/ \E t \in budget.timeouts : with_client_timeout(t)
    \/ DropSocketState
    \/ MonLockMap
    \/ \E key \in Endpoints : MonLockConn(key)
    \/ MonCheck
    \/ MonSleep
    \/ MonWake
    \/ Tick

\* the steps of the timeout thread, of the clock and of dropped_packets
NextSweep ==
    \/ \E c \in budget.callers, addr \in budget.endpoints : Call_dropped_packets(c, addr)
    \/ \E c \in Callers : AcquireMapWrite(c)
    \/ \E c \in Callers : create_connection_if_not_exists(c)
    \/ \E c \in Callers : AcquireConnWrite(c)
    \/ \E c \in Callers : dropped_packets(c)
    \/ \E c \in Callers : Return(c)
    \/ MonLockMap
    \/ \E key \in Endpoints : MonLockConn(key)
    \/ MonCheck
    \/ MonSleep
    \/ MonWake
    \/ Tick

Spec == Init /\ [][Next]_vars
SpecSweep == InitSweep /\ [][NextSweep]_vars
SpecWindow == InitWindow /\ [][Next]_vars

\* the steps of process_received on packets that acknowledge nothing, of the timeout
\* thread and of the clock
NextAcks ==
    \/ \E c \in budget.callers, addr \in budget.endpoints, n \in budget.seqs :
          Call_process_received(c, addr, n,
                                [seq |-> WireSeq(n), ack_seq |-> 0, ack_field |-> {}])
    \/ \E c \in Callers : AcquireMapWrite(c)
    \/ \E c \in Callers : create_connection_if_not_exists(c)
    \/ \E c \in Callers : AcquireConnWrite(c)
    \/ \E c \in Callers : process_received_ack(c)
    \/ \E c \in Callers : process_received_resolve(c)
    \/ \E c \in Callers : Return(c)
    \/ MonLockMap
    \/ \E key \in Endpoints : MonLockConn(key)
    \/ MonCheck
    \/ MonSleep
    \/ MonWake
    \/ Tick

SpecAcks == InitAcks /\ [][NextAcks]_vars

\* ------------------------------------------------------------ properties
AllDropped == UNION {Range(conn[h].dropped_packets) : h \in DOMAIN conn}
AllPending == UNION {Range(conn[h].waiting_packets) : h \in DOMAIN conn}
Count(list, x) == Cardinality({i \in DOMAIN list : list[i] = x})
StampsOf(h) == SelectSeq(hist.stamped, LAMBDA e : e[1] = h)

\* C1: on every connection the k-th header built carries sequence number
\* (k - 1) mod 2^w and the counter then stands at k mod 2^w: it advances by exactly
\* one per outbound packet, and within one wrap no sequence number is stamped on
\* two different packets.
C1_SeqAdvancesByOne ==
    \A h \in DOMAIN conn :
        LET st == StampsOf(h)
        IN /\ conn[h].seq_num = Len(st) % SeqMod
           /\ \A i \in 1 .. Len(st) : st[i][3] = (i - 1) % SeqMod
           /\ \A i, j \in 1 .. Len(st) :
                 (i < j /\ j - i < SeqMod) => (st[i][3] # st[j][3] /\ st[i][2] # st[j][2])

\* the counter of some connection has wrapped round
C1_Witness ==
    \E h \in DOMAIN conn : Len(StampsOf(h)) > SeqMod /\ conn[h].seq_num = 1

\* C2: every packet resolve harvested as dropped is still in the dropped list of
\* its connection or has been returned by a dropped_packets call.
C2_DroppedNeverLost ==
    \A m \in Range(hist.harvested) : m \in AllDropped \/ m \in Range(hist.drained)

\* C3: no packet is returned by two dropped_packets calls or harvested by two
\* resolves, and a packet once returned is neither pending nor in a dropped list.
C3_NoDoubleHarvest ==
    /\ \A m \in Range(hist.drained) :
          Count(hist.drained, m) = 1 /\ m \notin AllDropped /\ m \notin AllPending
    /\ \A m \in Range(hist.harvested) :
          Count(hist.harvested, m) = 1 /\ m \notin AllPending

\* a packet was returned by one call and a later call on the connection came back empty
C3_Witness ==
    \E c \in Callers :
        /\ pc[c] = "ret" /\ op[c].name = "dropped_packets" /\ op[c].out = <<>>
        /\ \E m \in Range(hist.drained) : m \in Range(hist.harvested)

\* C4: when pre_process_packet returns an error, the window of the connection is
\* as it was before the call.
C4_FailedSendLeavesWindow ==
    \A c \in Callers :
        (pc[c] = "ret" /\ op[c].name = "pre_process_packet" /\ ~op[c].ok)
            => conn[op[c].connection].waiting_packets = op[c].before

\* C5: the registry never makes a second Connection for an endpoint, and every
\* handle create_connection_if_not_exists returned for an endpoint, to whichever
\* caller, is the one Connection the map holds for it.
C5_OneConnectionPerEndpoint ==
    /\ \A h1, h2 \in DOMAIN conn : conn[h1].addr = conn[h2].addr => h1 = h2
    /\ \A e \in hist.handles : e[1] \in DOMAIN connections /\ connections[e[1]] = e[2]

\* a caller has just been handed the Connection that another caller's call created
C5_Witness ==
    \E c \in Callers :
        /\ pc[c] \in WaitingForConn
        /\ hist.creator[op[c].addr] # c
        /\ op[c].connection = connections[op[c].addr]

\* what resolve is to do with the entry under sequence number s, as the claims put it
AgedOut(s, raw) == IsNewer(raw.ack_seq, s) /\ Age(s, raw.ack_seq) > Horizon
AckedBy(s, raw) ==
    \/ s = raw.ack_seq
    \/ IsNewer(raw.ack_seq, s) /\ Age(s, raw.ack_seq) <= Horizon
                               /\ Age(s, raw.ack_seq) \in raw.ack_field

\* caller c takes the resolve step of process_received
ResolveStep(c) == pc[c] = "pr_res_locked" /\ pc'[c] = "ret"

Fates(m) ==
    {f \in {"pending", "acked", "dropped", "replaced"} :
        \/ f = "pending" /\ m \in AllPending
        \/ f = "acked" /\ m \in hist.acked
        \/ f = "dropped" /\ m \in Range(hist.harvested)
        \/ f = "replaced" /\ m \in hist.replaced}

C7_DroppedOnlyAgedOut ==
    [][ \A h \in DOMAIN conn' :
          /\ \A m \in Range(conn'[h].dropped_packets) :
                \/ h \in DOMAIN conn /\ m \in Range(conn[h].dropped_packets)
                \/ \E c \in Callers :
                      /\ ResolveStep(c) /\ op[c].connection = h
                      /\ \E s \in DOMAIN conn[h].waiting_packets :
                            /\ conn[h].waiting_packets[s] = m
                            /\ AgedOut(s, op[c].raw) /\ ~AckedBy(s, op[c].raw)
          /\ \A c \in Callers : (ResolveStep(c) /\ op[c].connection = h) =>
                \A s \in DOMAIN conn[h].waiting_packets :
                   AckedBy(s, op[c].raw) =>
                      /\ s \notin DOMAIN conn'[h].waiting_packets
                      /\ conn[h].waiting_packets[s] \notin Range(conn'[h].dropped_packets)
          /\ hist'.acked \cap Range(conn'[h].dropped_packets) = {}
      ]_vars

\* a dropped list holds a packet while another packet has been acknowledged
C7_Witness ==
    AllDropped # {} /\ hist.acked # {} /\ hist.acked \cap Range(hist.harvested) = {}

\* C8: in a sweep the thread visits every registered connection once and logs it exactly
\* when the time since it was last heard of is at least the timeout the thread was
\* started with, measured when the thread looks at it.
C8_SweepFlagsExactlyStale ==
    /\ \A k \in DOMAIN hist.sweep :
          hist.sweep[k].fired = (IF hist.sweep[k].elapsed >= sleepy_time THEN 1 ELSE 0)
    /\ monPc \in {"iter", "check"} =>
          /\ (DOMAIN hist.sweep) \cup monTodo = DOMAIN connections
          /\ (DOMAIN hist.sweep) \cap monTodo = {}
    /\ sleepy_time = TIMEOUT_DEFAULT

\* a sweep is over that logged one connection, silent for the timeout exactly, and left
\* another one alone
C8_Witness ==
    /\ monPc = "iter" /\ monTodo = {}
    /\ \E k1, k2 \in DOMAIN hist.sweep :
          /\ hist.sweep[k1].fired = 1 /\ hist.sweep[k1].elapsed = TIMEOUT_DEFAULT
          /\ hist.sweep[k2].fired = 0

\* C9: once the SocketState is gone the thread does not start another iteration.
C9_MonitorStopsOnShutdown ==
    [][(~alive /\ monPc = "sleep") => monPc' = "sleep"]_vars

\* C10: an endpoint once registered stays mapped to the same Connection, which stays
\* in being, and a step of the timeout thread changes neither the map nor any Connection.
C10_NeverRemoved ==
    [][ /\ \A a \in DOMAIN connections :
              a \in DOMAIN connections' /\ connections'[a] = connections[a]
        /\ \A h \in DOMAIN conn : h \in DOMAIN conn' /\ conn'[h].addr = conn[h].addr
        /\ monPc' # monPc => (connections' = connections /\ conn' = conn)
      ]_vars

\* the thread has logged a connection as timed out, and it and a later one are registered
C10_Witness ==
    /\ Cardinality(DOMAIN connections) = MaxEndpoints
    /\ \E k \in DOMAIN hist.sweep : hist.sweep[k].fired = 1 /\ k \in DOMAIN connections

\* ------------------------------------------------------ who waits for whom
\* the threads: the callers, and 0 for the check_for_timeouts thread
ThreadIds == Callers \cup {0}

HoldersOf(lock) ==
    (IF lock.w # 0 THEN {lock.w} ELSE {}) \cup (IF Monitor \in lock.r THEN {0} ELSE {})

\* the threads that hold a lock thread t asks for and cannot have (the timeout thread
\* takes the connections in the order of the map's iterator, whichever that is)
WaitsFor(t) ==
    IF t = 0
    THEN CASE monPc = "lock_map" -> (IF mapLock.w # 0 THEN {mapLock.w} ELSE {})
           [] monPc = "iter" -> {connLock[connections[k]].w : k \in monTodo} \ {0}
           [] OTHER -> {}
    ELSE CASE pc[t] = "create" -> HoldersOf(mapLock)
           [] pc[t] \in WaitingForConn -> HoldersOf(connLock[op[t].connection])
           [] OTHER -> {}

RECURSIVE WaitChain(_, _)
\* the threads reached from those of S along at most n further waits
WaitChain(S, n) ==
    IF n = 0 THEN S ELSE S \cup WaitChain(UNION {WaitsFor(t) : t \in S}, n - 1)

ConnLocksOf(t) ==
    {h \in DOMAIN connLock : IF t = 0 THEN Monitor \in connLock[h].r ELSE connLock[h].w = t}

\* C11 as stated: a caller about to look up a registered endpoint is never kept out of
\* the map by a lock held while the connection of another endpoint is being worked on.
C11_NoCrossEndpointBlocking ==
    \A c \in Callers :
        (pc[c] = "create" /\ op[c].addr \in DOMAIN connections)
            => ~(mapLock # FreeLock /\ monCur # 0 /\ monCur # op[c].addr)

\* C12: no thread holds the locks of two connections at once, and no thread waits,
\* directly or along a chain of waits, for a lock it holds itself.
C12_NoDeadlock ==
    /\ \A t \in ThreadIds : Cardinality(ConnLocksOf(t)) <= 1
    /\ \A t \in ThreadIds :
          t \notin WaitChain(WaitsFor(t), Cardinality(ThreadIds))

\* the timeout thread, holding the map, waits for a connection a caller has locked,
\* and also a caller waits for the map the timeout thread holds
C12_Witness ==
    \/ /\ monPc = "iter" /\ WaitsFor(0) # {}
    \/ \E c \in Callers : pc[c] = "create" /\ 0 \in WaitsFor(c) /\ monCur # 0

\* C16 as stated: from its first write guard to its return a method holds the write
\* lock of its connection.
C16_LockHeldThroughout ==
    \A c \in Callers :
        pc[c] \in {"pp_enq_locked", "pp_hdr", "pp_hdr_locked", "dp_locked",
                   "pr_ack_locked", "pr_res", "pr_res_locked"}
            => connLock[op[c].connection].w = c

\* C17 as stated: the step that ends process_received leaves the connection heard of
\* zero seconds ago.
C17_InboundResetsLastHeard ==
    [][\A c \in Callers : ResolveStep(c) => conn'[op[c].connection].last_heard = 0]_vars

\* C18 as stated: no caller that asks for the map is kept out of it by the timeout thread.
C18_SweepNeverBlocks ==
    \A c \in Callers : pc[c] = "create" => Monitor \notin mapLock.r

\* C19 as stated: a call that finds its endpoint in the map does not hold the map
\* exclusively.
C19_LookupIsSharedRead ==
    \A c \in Callers :
        (pc[c] = "create_locked" /\ op[c].addr \in DOMAIN connections) => mapLock.w # c

\* C20 as stated: the timeout thread logs a connection exactly when the time since it
\* was last heard of is at least the timeout set on the SocketState.
C20_ThresholdIsConfigured ==
    [][(monPc = "check" /\ monPc' = "iter") =>
          (hist'.sweep[monCur].fired = 1 <=> LastHeard(conn[connections[monCur]]) >= timeout)
      ]_vars

ScenarioState(h) ==
    /\ DOMAIN conn[h].waiting_packets = 0 .. ScenarioLast
    /\ conn[h].seq_num = ScenarioLast + 1
    /\ hist.acked = {} /\ hist.harvested = <<>> /\ hist.replaced = {}

\* resolve runs on it for a header that names the last sequence sent and no other
ScenarioResolve(c) ==
    /\ ResolveStep(c)
    /\ ScenarioState(op[c].connection)
    /\ op[c].raw.ack_seq = ScenarioLast /\ op[c].raw.ack_field = {}

WindowPackets(h, S) == {conn[h].waiting_packets[s] : s \in S}

HeaderStep(c) == pc[c] = "pp_hdr_locked" /\ pc'[c] = "ret"

\* C15: when pre_process_packet builds the header of a message, the message sits in the
\* window under the very sequence number the header carries.
C15_EnqueuedUnderStampedSeq ==
    [][\A c \in Callers : HeaderStep(c) =>
          LET w == conn[op[c].connection].waiting_packets
              seq == op'[c].raw.seq
          IN seq \in DOMAIN w /\ w[seq] = op[c].packet
      ]_vars

\* a call has stamped a message after earlier calls moved the counter of its connection,
\* and the timeout thread is reading that connection
C15_Witness ==
    \E c \in Callers :
        /\ pc[c] = "ret" /\ op[c].name = "pre_process_packet"
        /\ op[c].raw.seq >= 1
        /\ Len(hist.stamped) >= 2
        /\ hist.stamped[Len(hist.stamped)] = <<op[c].connection, op[c].packet, op[c].raw.seq>>
        /\ monCur = op[c].addr

====
